---- MODULE Spec2Model ----
(***************************************************************************)
(* Model of the items CRUD backend: app/src/index.js (Express handlers,    *)
(* request-duration middleware, DB init retry loop) and app/src/db.js      *)
(* (pg pool, schema creation).  The PostgreSQL store is modelled by the    *)
(* statements the program sends to it and the schema db.init() creates.    *)
(***************************************************************************)
EXTENDS Integers, Sequences, FiniteSets, Bags, TLC

VARIABLES
    dbUp,         \* the store accepts connections and answers statements
    tableExists,  \* CREATE TABLE IF NOT EXISTS items has succeeded
    items,        \* rows of table items
    idSeq,        \* last value handed out by the SERIAL sequence of items.id
    now,          \* the store's CURRENT_TIMESTAMP
    startPc,      \* position of the DB init loop
    tries,        \* its local variable tries
    timer,        \* seconds left of the pending setTimeout
    hist,         \* observations of http_request_duration_seconds, by labels
    req,          \* the request answered last
    res,          \* its response
    stmt,         \* the statement that request sent to the store
    reqNo,        \* parity of the number of requests answered
    reqAt,        \* history: the store and the init loop as that request found them
    initCalls,    \* history: number of db.init() calls made
    slept,        \* history: seconds waited since the last failed db.init()
    issued,       \* history: ids handed out by the sequence
    deleted,      \* history: ids whose DELETE was answered 204
    born,         \* history: (id, created_at) of every row at its creation
    posted        \* history: the payload posted for each row not replaced or deleted since

vars == <<dbUp, tableExists, items, idSeq, now, startPc, tries, timer, hist,
          req, res, stmt, reqNo, reqAt, initCalls, slept, issued, deleted, born, posted>>

storeVars   == <<dbUp, tableExists, items, idSeq, now>>
startupVars == <<startPc, tries, timer, initCalls, slept>>
histVars    == <<issued, deleted, born, posted>>
reqVars     == <<hist, req, res, stmt, reqNo, reqAt>>

----------------------------------------------------------------------------
(* Bounds of the model *)

MaxIds  == 2    \* rows ever inserted
MaxTime == 1    \* ticks of the store's clock
MaxObs  == 4    \* observations recorded in the histogram

(* Program constants *)

MaxTries      == 12   \* while (tries < 12)
RetryDelaySec == 2    \* setTimeout(r, 2000)

----------------------------------------------------------------------------
(* JavaScript values of the body fields *)

Undef  == [t |-> "undefined", v |-> ""]
Null   == [t |-> "null", v |-> ""]
Str(s) == [t |-> "string", v |-> s]

\* JS truthiness of a body field
Truthy(x) == x.t = "string" /\ x.v # ""

\* x || y
JsOr(x, y) == IF Truthy(x) THEN x ELSE y

\* pg binds undefined and null parameters as SQL NULL
PgParam(x) == IF x.t = "undefined" THEN Null ELSE x

----------------------------------------------------------------------------
(* Path parameter :id, a non-empty text, as PostgreSQL reads it for the     *)
(* integer column id                                                        *)

Digits == <<"0", "1", "2", "3", "4", "5", "6", "7", "8", "9">>

IsDigit(c) == \E i \in 1..Len(Digits) : Digits[i] = c

DigitVal(c) == (CHOOSE i \in 1..Len(Digits) : Digits[i] = c) - 1

Int4Valid(s) == Len(s) > 0 /\ \A i \in 1..Len(s) : IsDigit(s[i])

RECURSIVE Int4Val(_)
Int4Val(s) ==
    IF Len(s) = 0 THEN 0
    ELSE 10 * Int4Val(SubSeq(s, 1, Len(s) - 1)) + DigitVal(s[Len(s)])

----------------------------------------------------------------------------
(* The store: pool.query(text, params)                                      *)

\* a statement on items raises: no connection, or relation does not exist
StoreRaises == ~dbUp \/ ~tableExists

RowsWithId(id) == {r \in items : r.id = id}

RECURSIVE SortById(_)
SortById(S) ==
    IF S = {} THEN <<>>
    ELSE LET r == CHOOSE x \in S : \A y \in S : x.id <= y.id
         IN  <<r>> \o SortById(S \ {r})

\* SELECT * FROM items ORDER BY id
SelectAll == [err |-> StoreRaises, rows |-> IF StoreRaises THEN <<>> ELSE SortById(items)]

\* SELECT * FROM items WHERE id=$1
SelectById(id) ==
    LET bad == StoreRaises \/ ~Int4Valid(id)
    IN  [err |-> bad, rows |-> IF bad THEN <<>> ELSE SortById(RowsWithId(Int4Val(id)))]

\* nextval of the SERIAL sequence
NextValMutReuse(last) ==
    IF items = {} THEN 1
    ELSE (CHOOSE x \in {r.id : r \in items} : \A y \in {r.id : r \in items} : y <= x) + 1
NextVal(last) == last + 1

\* the columns the INSERT of app.post gives a new row
InsertMutDesc(name, description, id) ==
    [id |-> id, name |-> PgParam(name), description |-> PgParam(description),
     created_at |-> now]
InsertRow(name, description, id) ==
    [id |-> id, name |-> PgParam(name), description |-> PgParam(JsOr(description, Null)),
     created_at |-> now]

\* INSERT INTO items(name, description) VALUES($1, $2) RETURNING *
\* (name TEXT NOT NULL; the sequence advances even when the row is rejected)
Insert(name, description) ==
    LET id  == NextVal(idSeq)
        row == InsertRow(name, description, id)
        bad == StoreRaises \/ row.name = Null
    IN  [err |-> bad,
         rows |-> IF bad THEN <<>> ELSE <<row>>,
         items |-> IF bad THEN items ELSE items \cup {row},
         idSeq |-> IF StoreRaises THEN idSeq ELSE id]

\* the row UPDATE ... SET name=$1, description=$2 makes of row r
UpdateMutCreated(r, name, description) ==
    [r EXCEPT !.name = PgParam(name), !.description = PgParam(description),
              !.created_at = now]
UpdateMutKeepDesc(r, name, description) ==
    [r EXCEPT !.name = PgParam(name)]
UpdateRow(r, name, description) ==
    [r EXCEPT !.name = PgParam(name), !.description = PgParam(description)]

\* UPDATE items SET name=$1, description=$2 WHERE id=$3 RETURNING *
Update(name, description, id) ==
    LET hit == IF Int4Valid(id) THEN RowsWithId(Int4Val(id)) ELSE {}
        new == {UpdateRow(r, name, description) : r \in hit}
        bad == StoreRaises \/ ~Int4Valid(id) \/ \E r \in new : r.name = Null
    IN  [err |-> bad,
         rows |-> IF bad THEN <<>> ELSE SortById(new),
         items |-> IF bad THEN items ELSE (items \ hit) \cup new]

\* the rows DELETE FROM items WHERE id=$1 leaves
DeleteRest(id) == items \ RowsWithId(id)

\* DELETE FROM items WHERE id=$1
Delete(id) ==
    LET bad == StoreRaises \/ ~Int4Valid(id)
        hit == IF bad THEN {} ELSE RowsWithId(Int4Val(id))
    IN  [err |-> bad,
         rowCount |-> Cardinality(hit),
         items |-> IF bad THEN items ELSE DeleteRest(Int4Val(id))]

----------------------------------------------------------------------------
(* Responses *)

ErrorBody(msg) == [kind |-> "error", msg |-> msg, rows |-> <<>>]
ItemBody(r)    == [kind |-> "item", msg |-> "", rows |-> <<r>>]
ListBody(rs)   == [kind |-> "list", msg |-> "", rows |-> rs]
EmptyBody      == [kind |-> "empty", msg |-> "", rows |-> <<>>]
StatusBody(s)  == [kind |-> "status", msg |-> s, rows |-> <<>>]
TextBody       == [kind |-> "text", msg |-> "", rows |-> <<>>]

Response(status, body) == [status |-> status, body |-> body]

\* catch (err) { res.status(500).json({ error: 'db error' }) }
DbErrorMutNotFound == Response(404, ErrorBody("not found"))
DbError == Response(500, ErrorBody("db error"))

\* res.status(404).json({ error: 'not found' })
NotFound == Response(404, ErrorBody("not found"))

\* if (!name)
NameMissingMutAbsentOnly(name) == name.t = "undefined"
NameMissing(name) == ~Truthy(name)

ListResponse(r) ==
    IF r.err THEN DbError ELSE Response(200, ListBody(r.rows))

GetResponse(r) ==
    IF r.err THEN DbError
    ELSE IF Len(r.rows) = 0 THEN NotFound
    ELSE Response(200, ItemBody(r.rows[1]))

PostResponse(r) ==
    IF r.err THEN DbError ELSE Response(201, ItemBody(r.rows[1]))

PutResponse(r) ==
    IF r.err THEN DbError
    ELSE IF Len(r.rows) = 0 THEN NotFound
    ELSE Response(200, ItemBody(r.rows[1]))

DeleteResponseMutAlways204(r) ==
    IF r.err THEN DbError ELSE Response(204, EmptyBody)
DeleteResponse(r) ==
    IF r.err THEN DbError
    ELSE IF r.rowCount = 0 THEN NotFound
    ELSE Response(204, EmptyBody)

\* res.status(200).json({ status: 'ok' })
HealthzMutChecksStore ==
    IF dbUp THEN Response(200, StatusBody("ok")) ELSE Response(500, StatusBody("down"))
HealthzResponse == Response(200, StatusBody("ok"))

----------------------------------------------------------------------------
(* Requests, and the middleware that observes durations *)

Request(method, path, route, id, name, description, json) ==
    [method |-> method, path |-> path, route |-> route, id |-> id,
     name |-> name, description |-> description, json |-> json]

NoRequest  == Request("", "", "", <<>>, Undef, Undef, "none")
NoResponse == Response(0, EmptyBody)

Statement(kind, err, n) == [kind |-> kind, err |-> err, n |-> n]
NoStatement == Statement("none", FALSE, 0)

\* req.route ? req.route.path : req.path
RouteLabelMutRawPath(rq) == rq.path
RouteLabel(rq) == IF rq.route # "" THEN rq.route ELSE rq.path

\* end({ method, route, code }) in the 'finish' callback
Labels(rq, rs) == [method |-> rq.method, route |-> RouteLabel(rq), code |-> rs.status]

Observe(h, rq, rs) == h (+) SetToBag({Labels(rq, rs)})

CanObserve == BagCardinality(hist) < MaxObs

Snapshot == [dbUp |-> dbUp, tableExists |-> tableExists, startPc |-> startPc, now |-> now]

\* a request that passes the duration middleware and is answered rs
Timed(rq, rs, st) ==
    /\ CanObserve
    /\ req' = rq
    /\ res' = rs
    /\ stmt' = st
    /\ hist' = Observe(hist, rq, rs)
    /\ reqNo' = 1 - reqNo
    /\ reqAt' = Snapshot

\* a request answered before the duration middleware is reached
Untimed(rq, rs) ==
    /\ req' = rq
    /\ res' = rs
    /\ stmt' = NoStatement
    /\ reqNo' = 1 - reqNo
    /\ reqAt' = Snapshot
    /\ UNCHANGED hist

----------------------------------------------------------------------------
(* Handlers *)

\* app.get('/items')
ListItems ==
    LET r  == SelectAll
        rq == Request("GET", "/items", "/items", <<>>, Undef, Undef, "ok")
    IN  /\ Timed(rq, ListResponse(r), Statement("select_all", r.err, Len(r.rows)))
        /\ UNCHANGED <<storeVars, startupVars, histVars>>

\* app.get('/items/:id')
GetItem(id) ==
    LET r  == SelectById(id)
        rq == Request("GET", "/items/", "/items/:id", id, Undef, Undef, "ok")
    IN  /\ Timed(rq, GetResponse(r), Statement("select", r.err, Len(r.rows)))
        /\ UNCHANGED <<storeVars, startupVars, histVars>>

\* app.post('/items')
PostItem(name, description) ==
    LET rq == Request("POST", "/items", "/items", <<>>, name, description, "ok")
        r  == Insert(name, description)
    IN  IF NameMissing(name)
        THEN /\ Timed(rq, Response(400, ErrorBody("name required")), NoStatement)
             /\ UNCHANGED <<storeVars, startupVars, histVars>>
        ELSE /\ r.idSeq <= MaxIds
             /\ Timed(rq, PostResponse(r), Statement("insert", r.err, Len(r.rows)))
             /\ items' = r.items
             /\ idSeq' = r.idSeq
             /\ issued' = IF r.idSeq # idSeq THEN issued \cup {r.idSeq} ELSE issued
             /\ born' = born \cup {[id |-> x.id, created_at |-> x.created_at] :
                                      x \in {r.rows[i] : i \in 1..Len(r.rows)}}
             /\ posted' = posted \cup {[id |-> x.id, name |-> name, description |-> description] :
                                          x \in {r.rows[i] : i \in 1..Len(r.rows)}}
             /\ UNCHANGED <<dbUp, tableExists, now, startupVars, deleted>>

\* app.put('/items/:id')
PutItem(id, name, description) ==
    LET r  == Update(name, description, id)
        rq == Request("PUT", "/items/", "/items/:id", id, name, description, "ok")
    IN  /\ Timed(rq, PutResponse(r), Statement("update", r.err, Len(r.rows)))
        /\ items' = r.items
        /\ posted' = {p \in posted : \A i \in 1..Len(r.rows) : r.rows[i].id # p.id}
        /\ UNCHANGED <<dbUp, tableExists, idSeq, now, startupVars, issued, deleted, born>>

\* app.delete('/items/:id')
DeleteItem(id) ==
    LET r  == Delete(id)
        rq == Request("DELETE", "/items/", "/items/:id", id, Undef, Undef, "ok")
        rs == DeleteResponse(r)
    IN  /\ Timed(rq, rs, Statement("delete", r.err, r.rowCount))
        /\ items' = r.items
        /\ deleted' = IF rs.status = 204 THEN deleted \cup {Int4Val(id)} ELSE deleted
        /\ posted' = IF rs.status = 204 THEN {p \in posted : p.id # Int4Val(id)} ELSE posted
        /\ UNCHANGED <<dbUp, tableExists, idSeq, now, startupVars, issued, born>>

\* app.get('/healthz')
Healthz ==
    LET rq == Request("GET", "/healthz", "/healthz", <<>>, Undef, Undef, "ok")
    IN  /\ Timed(rq, HealthzResponse, NoStatement)
        /\ UNCHANGED <<storeVars, startupVars, histVars>>

\* app.get('/metrics'), registered before the duration middleware; Express
\* routes HEAD to it as well
Metrics(method, ok) ==
    LET rq == Request(method, "/metrics", "/metrics", <<>>, Undef, Undef, "ok")
    IN  /\ Untimed(rq, IF ok THEN Response(200, TextBody) ELSE Response(500, TextBody))
        /\ UNCHANGED <<storeVars, startupVars, histVars>>

\* no route matches: the duration middleware calls next() and Express answers 404
NoRoute(method, path) ==
    LET rq == Request(method, path, "", <<>>, Undef, Undef, "ok")
    IN  /\ Timed(rq, Response(404, TextBody), NoStatement)
        /\ UNCHANGED <<storeVars, startupVars, histVars>>

\* bodyParser.json() rejects the body: next(err) skips every later middleware
\* and route, and Express answers with the error's status
MalformedJson(method, path) ==
    LET rq == Request(method, path, "", <<>>, Undef, Undef, "malformed")
    IN  /\ Untimed(rq, Response(400, TextBody))
        /\ UNCHANGED <<storeVars, startupVars, histVars>>

----------------------------------------------------------------------------
(* DB init loop *)

\* while (tries < 12)
LoopCondMutOneMore(t) == t <= MaxTries
LoopCond(t) == t < MaxTries

\* await db.init(): CREATE TABLE IF NOT EXISTS items (...)
InitAttempt ==
    /\ startPc = "loop"
    /\ initCalls' = initCalls + 1
    /\ IF dbUp
       THEN /\ tableExists' = TRUE
            /\ startPc' = "ready"
            /\ UNCHANGED <<tries, timer, slept>>
       ELSE /\ tries' = tries + 1
            /\ startPc' = "sleeping"
            /\ timer' = RetryDelaySec
            /\ slept' = 0
            /\ UNCHANGED tableExists
    /\ UNCHANGED <<dbUp, items, idSeq, now, reqVars, histVars>>

\* one second of the pending timeout passes
TimerTick ==
    /\ startPc = "sleeping"
    /\ timer > 0
    /\ timer' = timer - 1
    /\ slept' = slept + 1
    /\ UNCHANGED <<storeVars, startPc, tries, initCalls, reqVars, histVars>>

\* the timeout fires and the while condition is evaluated again
Wake ==
    /\ startPc = "sleeping"
    /\ timer = 0
    /\ startPc' = IF LoopCond(tries) THEN "loop" ELSE "exhausted"
    /\ UNCHANGED <<storeVars, tries, timer, initCalls, slept, reqVars, histVars>>

----------------------------------------------------------------------------
(* The store's environment *)

StoreDown ==
    /\ dbUp
    /\ dbUp' = FALSE
    /\ UNCHANGED <<tableExists, items, idSeq, now, startupVars, reqVars, histVars>>

StoreUp ==
    /\ ~dbUp
    /\ dbUp' = TRUE
    /\ UNCHANGED <<tableExists, items, idSeq, now, startupVars, reqVars, histVars>>

ClockTick ==
    /\ now < MaxTime
    /\ now' = now + 1
    /\ UNCHANGED <<dbUp, tableExists, items, idSeq, startupVars, reqVars, histVars>>

----------------------------------------------------------------------------
(* Inputs *)

PathIds == {<<"1">>, <<"2">>, <<"x">>}

Names == {Undef, Null, Str(""), Str("a")}

Descriptions == {Undef, Null, Str(""), Str("d")}

Init ==
    /\ dbUp \in BOOLEAN
    /\ tableExists = FALSE
    /\ items = {}
    /\ idSeq = 0
    /\ now = 0
    /\ startPc = "loop"
    /\ tries = 0
    /\ timer = 0
    /\ hist = EmptyBag
    /\ req = NoRequest
    /\ res = NoResponse
    /\ stmt = NoStatement
    /\ reqNo = 0
    /\ reqAt = [dbUp |-> dbUp, tableExists |-> FALSE, startPc |-> "loop", now |-> 0]
    /\ initCalls = 0
    /\ slept = 0
    /\ issued = {}
    /\ deleted = {}
    /\ born = {}
    /\ posted = {}

Next ==
    \/ ListItems
    \/ \E id \in PathIds : GetItem(id)
    \/ \E n \in Names, d \in Descriptions : PostItem(n, d)
    \/ \E id \in PathIds, n \in Names, d \in Descriptions : PutItem(id, n, d)
    \/ \E id \in PathIds : DeleteItem(id)
    \/ Healthz
    \/ \E m \in {"GET", "HEAD"}, ok \in BOOLEAN : Metrics(m, ok)
    \/ NoRoute("GET", "/nope")
    \/ MalformedJson("POST", "/items")
    \/ InitAttempt
    \/ TimerTick
    \/ Wake
    \/ StoreDown
    \/ StoreUp
    \/ ClockTick

Spec == Init /\ [][Next]_vars

--------------------------------------------------------------------------------------------------------------------------------------------------------------------------------------------------------------------------
(* The items operations while the DB init loop makes its first attempt:    *)
(* every kind of create, and replaces with and without a name              *)

NextItems ==
    \/ ListItems
    \/ \E id \in PathIds : GetItem(id)
    \/ \E n \in Names \ {Null}, d \in Descriptions \ {Null} : PostItem(n, d)
    \/ \E id \in PathIds, b \in {<<Str("b"), Undef>>, <<Undef, Str("d")>>} :
          PutItem(id, b[1], b[2])
    \/ \E id \in PathIds : DeleteItem(id)
    \/ InitAttempt
    \/ StoreDown
    \/ StoreUp

SpecItems == Init /\ [][NextItems]_vars

(* Replaces with every kind of body *)

NextReplace ==
    \/ \E d \in {Undef, Str("d")} : PostItem(Str("a"), d)
    \/ \E id \in PathIds \ {<<"x">>}, n \in Names, d \in Descriptions : PutItem(id, n, d)
    \/ GetItem(<<"1">>)
    \/ DeleteItem(<<"1">>)
    \/ InitAttempt
    \/ StoreDown
    \/ StoreUp

SpecReplace == Init /\ [][NextReplace]_vars

(* The life of rows while the store's clock runs *)

NextLifecycle ==
    \/ ListItems
    \/ \E id \in {<<"1">>, <<"2">>} : GetItem(id)
    \/ PostItem(Str("a"), Undef)
    \/ \E id \in {<<"1">>, <<"2">>} : PutItem(id, Str("b"), Undef)
    \/ \E id \in {<<"1">>, <<"2">>} : DeleteItem(id)
    \/ InitAttempt
    \/ StoreDown
    \/ StoreUp
    \/ ClockTick

SpecLifecycle == Init /\ [][NextLifecycle]_vars

(* One request of every kind, timed or not *)

NextMetrics ==
    \/ ListItems
    \/ GetItem(<<"1">>)
    \/ \E n \in {Str(""), Str("a")} : PostItem(n, Undef)
    \/ PutItem(<<"1">>, Str("b"), Undef)
    \/ DeleteItem(<<"1">>)
    \/ Healthz
    \/ \E m \in {"GET", "HEAD"}, ok \in BOOLEAN : Metrics(m, ok)
    \/ NoRoute("GET", "/nope")
    \/ NoRoute("POST", "/metrics")
    \/ MalformedJson("POST", "/items")
    \/ InitAttempt
    \/ StoreDown
    \/ StoreUp

SpecMetrics == Init /\ [][NextMetrics]_vars

(* The whole DB init loop, with health checks arriving at any time *)

NextStartup ==
    \/ InitAttempt
    \/ TimerTick
    \/ Wake
    \/ StoreDown
    \/ StoreUp
    \/ Healthz
    \/ ListItems

SpecStartup == Init /\ [][NextStartup]_vars

\* the event loop runs every ready continuation and fires every due timer
SpecStartupFair ==
    SpecStartup /\ WF_vars(InitAttempt) /\ WF_vars(TimerTick) /\ WF_vars(Wake)

----------------------------------------------------------------------------
(* Vocabulary of the properties *)

IsList(rq)    == rq.json = "ok" /\ rq.method = "GET" /\ rq.route = "/items"
IsGet(rq)     == rq.json = "ok" /\ rq.method = "GET" /\ rq.route = "/items/:id"
IsPost(rq)    == rq.json = "ok" /\ rq.method = "POST" /\ rq.route = "/items"
IsPut(rq)     == rq.json = "ok" /\ rq.method = "PUT" /\ rq.route = "/items/:id"
IsDelete(rq)  == rq.json = "ok" /\ rq.method = "DELETE" /\ rq.route = "/items/:id"
IsHealthz(rq) == rq.json = "ok" /\ rq.method = "GET" /\ rq.route = "/healthz"

IsIdOp(rq)    == IsGet(rq) \/ IsPut(rq) \/ IsDelete(rq)
IsItemsOp(rq) == IsList(rq) \/ IsPost(rq) \/ IsIdOp(rq)

\* a request has been answered in this step
Answered == reqNo' # reqNo

Is404 == Response(404, ErrorBody("not found"))
Is500 == Response(500, ErrorBody("db error"))

\* a body field and the column read back agree: an absent field reads back null
SameAsSent(x) == IF x = Undef THEN Null ELSE x

----------------------------------------------------------------------------
(* C1: a GET of a row that was created by POST and not replaced or deleted  *)
(* since, answered while the store is reachable and the schema exists,      *)
(* yields 200 and the posted name and description, with the id and          *)
(* created_at the store assigned.                                           *)

C1_RoundTrip(expected(_)) ==
    (IsGet(req) /\ reqAt.dbUp /\ reqAt.tableExists /\ Int4Valid(req.id)) =>
        \A p \in posted :
            p.id = Int4Val(req.id) =>
                /\ res.status = 200
                /\ res.body.kind = "item"
                /\ res.body.rows[1].id = p.id
                /\ res.body.rows[1].name = p.name
                /\ res.body.rows[1].description = expected(p.description)
                /\ \E b \in born : /\ b.id = p.id
                                   /\ b.created_at = res.body.rows[1].created_at

\* C1 as stated: the description read back is the one posted, whatever text it is
C1_Original == C1_RoundTrip(SameAsSent)

\* C1 amended: a non-empty description reads back as posted; an absent or
\* empty-string description reads back null
C1_Amended ==
    LET expected(d) == IF d.t = "string" /\ d.v # "" THEN d ELSE Null
    IN  C1_RoundTrip(expected)

C1_Witness ==
    /\ IsGet(req)
    /\ res.status = 200
    /\ Int4Valid(req.id)
    /\ \E p \in posted : p.id = Int4Val(req.id) /\ p.description = Str("")

----------------------------------------------------------------------------
(* C2: POST /items with an absent or empty-string name yields 400 {error:   *)
(* "name required"}, sends no statement to the store and leaves the table   *)
(* and the id sequence as they were, in every state of the store.           *)

C2_NameRequired ==
    [][(Answered /\ IsPost(req') /\ req'.name \in {Undef, Str("")}) =>
          /\ res' = Response(400, ErrorBody("name required"))
          /\ stmt'.kind = "none"
          /\ items' = items
          /\ idSeq' = idSeq]_vars

C2_Witness ==
    /\ IsPost(req)
    /\ req.name = Str("")
    /\ res.status = 400
    /\ ~reqAt.dbUp
    /\ ~reqAt.tableExists

----------------------------------------------------------------------------
(* C3: GET, PUT and DELETE /items/:id with an id the store never issued.    *)

NeverIssued(id) == ~(Int4Valid(id) /\ Int4Val(id) \in issued)

\* C3 as stated: the answer is always 404 {error:"not found"}, table unchanged
C3_Original ==
    [][(Answered /\ IsIdOp(req') /\ NeverIssued(req'.id)) =>
          /\ res' = Is404
          /\ items' = items]_vars

\* C3 amended: 404 when the id is an integer and the store answers the
\* statement; 500 {error:"db error"} when the store is unreachable, the schema
\* is missing or the id is not an integer; the table is unchanged either way
C3_Amended ==
    [][(Answered /\ IsIdOp(req') /\ NeverIssued(req'.id)) =>
          /\ res' = IF dbUp /\ tableExists /\ Int4Valid(req'.id) THEN Is404 ELSE Is500
          /\ items' = items]_vars

C3_Witness ==
    /\ IsDelete(req)
    /\ Int4Valid(req.id)
    /\ Int4Val(req.id) \notin issued
    /\ res.status = 404
    /\ items # {}

----------------------------------------------------------------------------
(* C4: DELETE /items/:id of an existing row, and a repeated DELETE.         *)

C4_Delete(answers) ==
    (Answered /\ IsDelete(req') /\ Int4Valid(req'.id) /\ answers) =>
        LET id == Int4Val(req'.id)
        IN  /\ (\E r \in items : r.id = id) =>
                   /\ res' = Response(204, EmptyBody)
                   /\ \A r \in items' : r.id # id
            /\ id \in deleted => res' = Is404

\* C4 as stated: 204 and the row removed; 404 on every later DELETE of that id
C4_Original == [][C4_Delete(TRUE)]_vars

\* C4 amended: so whenever the store answers the statement; when it raises,
\* the answer is 500 {error:"db error"} and the table is unchanged; in no case
\* does a row carry a deleted id
C4_Amended ==
    [][/\ C4_Delete(dbUp /\ tableExists)
       /\ (Answered /\ IsDelete(req') /\ ~(dbUp /\ tableExists)) =>
              (res' = Is500 /\ items' = items)
       /\ \A r \in items' : r.id \notin deleted']_vars

C4_Witness ==
    /\ IsDelete(req)
    /\ Int4Valid(req.id)
    /\ Int4Val(req.id) \in deleted
    /\ res.status = 404
    /\ idSeq > Int4Val(req.id)

----------------------------------------------------------------------------
(* C5: for list, get, create with a valid name, replace and delete: when    *)
(* the store is unreachable or the schema is missing, or the statement      *)
(* raises for another reason, the answer is 500 {error:"db error"}; a 404   *)
(* is given only when the store answered with zero rows.                    *)

C5_StoreErrors ==
    [][(/\ Answered
        /\ IsItemsOp(req')
        /\ IsPost(req') => (req'.name.t = "string" /\ req'.name.v # "")) =>
          /\ (~dbUp \/ ~tableExists) => (res' = Is500 /\ stmt'.err)
          /\ stmt'.err => res' = Is500
          /\ res'.status = 404 =>
                (~stmt'.err /\ stmt'.n = 0 /\ dbUp /\ tableExists)]_vars

C5_Witness ==
    /\ IsPut(req)
    /\ res.status = 500
    /\ reqAt.dbUp
    /\ ~reqAt.tableExists
    /\ reqAt.startPc = "loop"

----------------------------------------------------------------------------
(* C6: PUT /items/:id of an existing row while the store answers.           *)

C6_RowExists ==
    /\ Answered
    /\ IsPut(req')
    /\ Int4Valid(req'.id)
    /\ dbUp
    /\ tableExists
    /\ \E r \in items : r.id = Int4Val(req'.id)

C6_Replaced ==
    /\ res'.status = 200
    /\ res'.body.kind = "item"
    /\ res'.body.rows[1].id = Int4Val(req'.id)
    /\ res'.body.rows[1].name = SameAsSent(req'.name)
    /\ res'.body.rows[1].description = SameAsSent(req'.description)
    /\ res'.body.rows[1] \in items'

\* C6 as stated: every body is accepted, an absent name like any other
C6_Original == [][C6_RowExists => C6_Replaced]_vars

\* C6 amended: every body whose name is a string, the empty string included,
\* is accepted; a body without a name is refused by the column's NOT NULL
\* with 500 {error:"db error"} and the table stays as it was
C6_Amended ==
    [][C6_RowExists =>
          IF req'.name.t = "string"
          THEN C6_Replaced
          ELSE res' = Is500 /\ items' = items]_vars

C6_Witness ==
    /\ IsPut(req)
    /\ res.status = 200
    /\ req.name = Str("")
    /\ req.description = Str("")
    /\ res.body.rows[1].name = Str("")

----------------------------------------------------------------------------
(* C7: the observations recorded in the request-duration histogram.         *)

C7_Labels ==
    [method |-> req'.method,
     route |-> IF req'.route # "" THEN req'.route ELSE req'.path,
     code |-> res'.status]

\* C7 as stated: every request answered records exactly one observation
C7_Original ==
    [][Answered => hist' = hist (+) SetToBag({C7_Labels})]_vars

\* C7 amended: every request answered records exactly one observation, except
\* the requests the /metrics route answers and those the JSON body parser
\* rejects, which record none
C7_Amended ==
    [][Answered =>
          hist' = IF req'.route = "/metrics" \/ req'.json = "malformed"
                  THEN hist
                  ELSE hist (+) SetToBag({C7_Labels})]_vars

C7_Witness ==
    /\ req.route = "/metrics"
    /\ BagCardinality(hist) = 2
    /\ CopiesIn([method |-> "GET", route |-> "/nope", code |-> 404], hist) = 1
    /\ CopiesIn([method |-> "GET", route |-> "/items/:id", code |-> 500], hist) = 1

----------------------------------------------------------------------------
(* C8: GET /healthz can be answered in every state of the init loop and of  *)
(* the store; the answer is 200 {status:"ok"}, no statement is sent to the  *)
(* store, and neither the store nor the init loop is touched.               *)

C8_Healthz ==
    /\ [](BagCardinality(hist) < MaxObs => ENABLED Healthz)
    /\ [][(Answered /\ IsHealthz(req')) =>
             /\ res' = Response(200, StatusBody("ok"))
             /\ stmt'.kind = "none"
             /\ UNCHANGED <<storeVars, startupVars>>]_vars

C8_Witness ==
    /\ IsHealthz(req)
    /\ res.status = 200
    /\ ~reqAt.dbUp
    /\ reqAt.startPc = "exhausted"

----------------------------------------------------------------------------
(* C9: the DB init loop calls db.init() at most 12 times; a failed call     *)
(* increments tries and the next call comes only after 2 seconds; the first *)
(* success ends the loop; after 12 failures no call is made again, whatever *)
(* the store does; and the loop ends under every pattern of availability.   *)

C9_Step ==
    /\ initCalls' # initCalls =>
          /\ initCalls' = initCalls + 1
          /\ initCalls > 0 => slept = 2
          /\ IF dbUp THEN startPc' = "ready" /\ tries' = tries /\ tableExists'
                     ELSE startPc' = "sleeping" /\ tries' = tries + 1
    /\ startPc \in {"ready", "exhausted"} =>
          (startPc' = startPc /\ initCalls' = initCalls)
    /\ startPc' = "exhausted" => (tries' = 12 /\ initCalls' = 12)

\* C9: at most 12 calls, the steps above, requests still answered once the
\* loop has given up, and the loop ends
C9_InitLoop ==
    /\ [](initCalls <= 12 /\ tries <= initCalls)
    /\ [][C9_Step]_vars
    /\ []((startPc = "exhausted" /\ BagCardinality(hist) < MaxObs) => ENABLED ListItems)
    /\ <>(startPc \in {"ready", "exhausted"})

C9_Witness ==
    /\ startPc = "exhausted"
    /\ initCalls = 12
    /\ dbUp

----------------------------------------------------------------------------
(* C10: ids of rows are unique; a new row's id is greater than every id     *)
(* issued before; a row keeps its id and its created_at from creation on.   *)

C10_Rows ==
    [][/\ \A r1 \in items', r2 \in items' : r1.id = r2.id => r1 = r2
       /\ \A r \in items' :
             (\A o \in items : o.id # r.id) => \A i \in issued : r.id > i
       /\ \A o \in items, r \in items' : o.id = r.id => o.created_at = r.created_at
       /\ \A r \in items' : [id |-> r.id, created_at |-> r.created_at] \in born'
       /\ \A b1 \in born', b2 \in born' : b1.id = b2.id => b1 = b2]_vars

C10_Witness ==
    /\ IsPut(req)
    /\ res.status = 200
    /\ res.body.rows[1].created_at < reqAt.now
    /\ deleted # {}

====
